---------------------------- MODULE Spec2Model ----------------------------
(***************************************************************************)
(* Model of wurstminebackup (src/src/main.rs): the backup tree under       *)
(* BACKUP_PATH, the eviction policy delete_one, make_room, make_backup,    *)
(* compress_all, do_backup and main.                                       *)
(*                                                                         *)
(* A file name is the record of what the regular expression of delete_one  *)
(* sees in it: whether it matches at all (re), the captured timestamp      *)
(* (ts, 0 when the digits are no calendar date), the captured version      *)
(* split on '.' (ver, a sequence of text parts) and whether the optional   *)
(* ".tar.gz" suffix is there (gz).  An entry of a directory is a name,     *)
(* its file type (dir) and its size in bytes (size).                       *)
(***************************************************************************)
EXTENDS Integers, Sequences, FiniteSets, TLC

VARIABLES
    fs,          \* BACKUP_PATH: [target -> set of entries]
    avail,       \* available bytes of the mount that holds BACKUP_PATH
    world_size,  \* dir_size(world.dir())
    jar,         \* file stem of the link target of minecraft_server.jar, split on '.'
    pc,          \* position of the program
    res,         \* result of do_backup ("none" while it runs)
    main_res,    \* result of main ("none" while it runs)
    saves,       \* whether the Minecraft server saves the world: "on" or "off"
    cand,        \* compress_all: smallest_uncompressed of the current scan
    passes,      \* make_backup: rsync passes made
    call,        \* the last delete_one call: caller, tree and space before, result, tree after
    log,         \* what compress_all did, in order
    fs0,         \* the backup tree when compress_all was entered
    cmds,        \* main: the commands sent to the Minecraft server, in order, and whether each succeeded
    rsyncs       \* make_backup: the rsync passes of this invocation, in order

vars == <<fs, avail, world_size, jar, pc, res, main_res, saves, cand, passes, call, log, fs0,
          cmds, rsyncs>>

----------------------------------------------------------------------------
(* Bounds *)

MaxTs == 2          \* timestamps of existing snapshots are 1..MaxTs
PolicyMaxTs == 2    \* the same for the directories of the policy on its own
MaxSize == 2        \* a directory (a snapshot, the world) has size 1 or MaxSize
MaxPasses == 2      \* rsync passes of one make_backup that still report changes

MaxAvail == MaxSize         \* available space at the start is 0..MaxAvail
Sizes == {1, MaxSize}
Now == MaxTs + 1            \* Utc::now() of make_backup: later than every snapshot

World == "wurstmineberg"
Other == "creative"
Targets == {World, Other}

----------------------------------------------------------------------------
(* File names *)

Name(re, ts, ver, gz) == [re |-> re, ts |-> ts, ver |-> ver, gz |-> gz]

Entry(name, dir, size) == [name |-> name, dir |-> dir, size |-> size]

\* part.parse::<i64>()
I64 == {"0", "1", "2", "3"}

parse_i64(part) ==
    CASE part = "0" -> 0
      [] part = "1" -> 1
      [] part = "2" -> 2
      [] part = "3" -> 3

\* version_parts.resize(3, 0): truncated or zero-padded to three components
resize3(parts) == [i \in 1..3 |-> IF i <= Len(parts) THEN parts[i] ELSE 0]

\* name_error with the timestamp parsed before the version
name_error_date_first(name) ==
    IF ~name.re THEN "FilenameFormat"
    ELSE IF name.ts = 0 THEN "ChronoParse"
    ELSE IF \E i \in 1..Len(name.ver) : name.ver[i] \notin I64 THEN "FilenameFormat"
    ELSE "ok"

\* The error of one entry's name in the loop of delete_one, "ok" when it parses
name_error(name) ==
    IF ~name.re THEN "FilenameFormat"
    ELSE IF \E i \in 1..Len(name.ver) : name.ver[i] \notin I64 THEN "FilenameFormat"
    ELSE IF name.ts = 0 THEN "ChronoParse"
    ELSE "ok"

\* The BTreeMap key (major, minor, patch, timestamp) of a name that parses
key_of(name) ==
    LET version_parts == resize3([i \in 1..Len(name.ver) |-> parse_i64(name.ver[i])])
    IN  <<version_parts[1], version_parts[2], version_parts[3], name.ts>>

\* tar_gz without the suffix: the archive gets the name of the directory
tar_gz_plain(name) == name

\* format!("{}.tar.gz", filename)
tar_gz(name) ==
    IF name.gz THEN Name(name.re, name.ts, name.ver \o <<"tar", "gz">>, TRUE)
    ELSE Name(name.re, name.ts, name.ver, TRUE)

----------------------------------------------------------------------------
(* Orders: tuples compare lexicographically *)

RECURSIVE tuple_cmp(_, _, _)
tuple_cmp(a, b, i) ==
    IF i > Len(a) THEN 0
    ELSE IF a[i] < b[i] THEN -1
    ELSE IF a[i] > b[i] THEN 1
    ELSE tuple_cmp(a, b, i + 1)

tuple_less(a, b) == tuple_cmp(a, b, 1) = -1

\* a pair of tuples, compared on the first and then on the second tuple
pair_cmp(p, q) ==
    IF tuple_cmp(p[1], q[1], 1) # 0 THEN tuple_cmp(p[1], q[1], 1)
    ELSE tuple_cmp(p[2], q[2], 1)

\* btree_keys in descending order
RECURSIVE btree_keys_descending(_)
btree_keys_descending(keys) ==
    IF keys = {} THEN <<>>
    ELSE LET greatest == CHOOSE k \in keys : \A o \in keys : o = k \/ tuple_less(o, k)
         IN  <<greatest>> \o btree_keys_descending(keys \ {greatest})

\* BTreeMap iteration: the keys in ascending order
RECURSIVE btree_keys(_)
btree_keys(keys) ==
    IF keys = {} THEN <<>>
    ELSE LET least == CHOOSE k \in keys : \A o \in keys : o = k \/ tuple_less(k, o)
         IN  <<least>> \o btree_keys(keys \ {least})

distance(old, new) ==
    LET major_distance == new[1] - old[1]
        minor_distance == IF new[1] = old[1] THEN new[2] - old[2] ELSE 0
        patch_distance == IF new[1] = old[1] /\ new[2] = old[2] THEN new[3] - old[3] ELSE 0
    IN  <<major_distance, minor_distance, patch_distance, new[4] - old[4]>>

\* distances.sort() on the two distances of a window
sorted_distances(prev, curr, next) ==
    LET d1 == distance(prev, curr)
        d2 == distance(curr, next)
    IN  IF tuple_less(d2, d1) THEN <<d2, d1>> ELSE <<d1, d2>>

\* min_by_key with the last of the equally least windows winning
RECURSIVE min_by_key_last(_, _, _)
min_by_key_last(ks, i, best) ==
    IF i + 2 > Len(ks) THEN best
    ELSE IF pair_cmp(sorted_distances(ks[best], ks[best + 1], ks[best + 2]),
                     sorted_distances(ks[i], ks[i + 1], ks[i + 2])) >= 0
         THEN min_by_key_last(ks, i + 1, i)
         ELSE min_by_key_last(ks, i + 1, best)

\* Iterator::min_by_key over tuple_windows: a later window replaces the best
\* one only when its key is strictly smaller
RECURSIVE min_by_key(_, _, _)
min_by_key(ks, i, best) ==
    IF i + 2 > Len(ks) THEN best
    ELSE IF pair_cmp(sorted_distances(ks[best], ks[best + 1], ks[best + 2]),
                     sorted_distances(ks[i], ks[i + 1], ks[i + 2])) = 1
         THEN min_by_key(ks, i + 1, i)
         ELSE min_by_key(ks, i + 1, best)

\* victim_key with the arm 0 | 1 narrowed to 0: a single backup is a victim
victim_key_single(keys) ==
    LET ks == btree_keys(keys)
    IN  IF Len(ks) = 0 THEN {}
        ELSE IF Len(ks) <= 2 THEN {ks[1]}
        ELSE {ks[min_by_key(ks, 2, 1) + 1]}

\* victim_key with the arm 2 taking the last value of the map
victim_key_last(keys) ==
    LET ks == btree_keys(keys)
    IN  IF Len(ks) <= 1 THEN {}
        ELSE IF Len(ks) = 2 THEN {ks[2]}
        ELSE {ks[min_by_key(ks, 2, 1) + 1]}

\* victim_key taking prev (.0.1) of the least window instead of curr (.1.1)
victim_key_prev(keys) ==
    LET ks == btree_keys(keys)
    IN  IF Len(ks) <= 1 THEN {}
        ELSE IF Len(ks) = 2 THEN {ks[1]}
        ELSE {ks[min_by_key(ks, 2, 1)]}

\* The match on timestamps.len(): the keys of the backup to delete, none for
\* 0 | 1, the first key for 2, the middle of the least window otherwise
victim_key(keys) ==
    LET ks == btree_keys(keys)
    IN  IF Len(ks) <= 1 THEN {}
        ELSE IF Len(ks) = 2 THEN {ks[1]}
        ELSE {ks[min_by_key(ks, 2, 1) + 1]}

----------------------------------------------------------------------------
(* delete_one *)

Errors == {"FilenameFormat", "ChronoParse", "Wheel"}

\* delete_one reporting a deletion that did not happen
delete_one_keeps(r) ==
    LET dir == fs[World]
        timestamps == {key_of(e.name) : e \in dir}
    IN  \/ /\ r = "Wheel" /\ UNCHANGED <<fs, avail>>
        \/ /\ r \in {"FilenameFormat", "ChronoParse"}
           /\ \E e \in dir : name_error(e.name) = r
           /\ UNCHANGED <<fs, avail>>
        \/ /\ \A e \in dir : name_error(e.name) = "ok"
           /\ victim_key(timestamps) = {}
           /\ r = "false" /\ UNCHANGED <<fs, avail>>
        \/ /\ \A e \in dir : name_error(e.name) = "ok"
           /\ victim_key(timestamps) # {}
           /\ r = "true"
           /\ UNCHANGED <<fs, avail>>

\* delete_one skipping the names that do not parse instead of returning
\* their error
delete_one_skips(r) ==
    LET dir == {e \in fs[World] : name_error(e.name) = "ok"}
        timestamps == {key_of(e.name) : e \in dir}
    IN  \/ /\ r = "Wheel"
           /\ UNCHANGED <<fs, avail>>
        \/ /\ victim_key(timestamps) = {}
           /\ r = "false"
           /\ UNCHANGED <<fs, avail>>
        \/ /\ r = "true"
           /\ \E e \in dir :
                /\ key_of(e.name) \in victim_key(timestamps)
                /\ fs' = [fs EXCEPT ![World] = @ \ {e}]
                /\ avail' = avail + e.size

\* delete_one(verbose, world) returning r: "true", "false" or an error.
\* read_dir lists the entries in any order: the first name that does not
\* parse decides the error, and of two names with one key the later one
\* stays in the map.
delete_one(r) ==
    LET dir == fs[World]
        timestamps == {key_of(e.name) : e \in dir}
    IN  \/ /\ r = "Wheel"
           /\ UNCHANGED <<fs, avail>>
        \/ /\ r \in {"FilenameFormat", "ChronoParse"}
           /\ \E e \in dir : name_error(e.name) = r
           /\ UNCHANGED <<fs, avail>>
        \/ /\ \A e \in dir : name_error(e.name) = "ok"
           /\ victim_key(timestamps) = {}
           /\ r = "false"
           /\ UNCHANGED <<fs, avail>>
        \/ /\ \A e \in dir : name_error(e.name) = "ok"
           /\ r = "true"
           /\ \E e \in dir :
                /\ key_of(e.name) \in victim_key(timestamps)
                /\ fs' = [fs EXCEPT ![World] = dir \ {e}]
                /\ avail' = avail + e.size

Results == {"true", "false"} \cup Errors

\* The record of a delete_one call
NoCall == [by |-> "none", before |-> fs, avail |-> avail, ret |-> "none", after |-> fs]

NoCand == [target |-> "none", name |-> Name(FALSE, 0, <<>>, FALSE), size |-> 0]

Call(by, r) == [by |-> by, before |-> fs, avail |-> avail, ret |-> r, after |-> fs']

----------------------------------------------------------------------------
(* The eviction policy on its own: delete_one called again and again on    *)
(* one backup directory.                                                   *)

\* The versions of the names of the policy's directories, with and without
\* the archive suffix
PolicyForms ==
    << [ver |-> <<"1">>, gz |-> FALSE],
       [ver |-> <<"1", "0">>, gz |-> TRUE],
       [ver |-> <<"1", "1">>, gz |-> FALSE],
       [ver |-> <<"2">>, gz |-> TRUE],
       [ver |-> <<"1", "0", "1", "2">>, gz |-> FALSE] >>

PolicyNames ==
    { Name(TRUE, ts, PolicyForms[i].ver, PolicyForms[i].gz) :
        ts \in 1..PolicyMaxTs, i \in 1..Len(PolicyForms) }
    \cup { Name(FALSE, 0, <<>>, FALSE),
           Name(TRUE, 1, <<"1", "x">>, FALSE),
           Name(TRUE, 0, <<"x">>, FALSE),
           Name(TRUE, 0, <<"1">>, FALSE) }

MaxSnap == PolicyMaxTs + 2

\* The sets of at most k elements of S
RECURSIVE subsets_up_to(_, _)
subsets_up_to(S, k) ==
    IF k = 0 \/ S = {} THEN {{}}
    ELSE LET x == CHOOSE y \in S : TRUE
             rest == S \ {x}
         IN  subsets_up_to(rest, k) \cup {T \cup {x} : T \in subsets_up_to(rest, k - 1)}

PolicyInit ==
    /\ \E names \in subsets_up_to(PolicyNames, MaxSnap) :
         fs = [t \in Targets |->
                 IF t = World THEN {Entry(n, ~n.gz, 1) : n \in names} ELSE {}]
    /\ avail = 0
    /\ world_size = 1
    /\ jar = <<>>
    /\ pc = "policy"
    /\ res = "none"
    /\ main_res = "none"
    /\ saves = "on"
    /\ cand = NoCand
    /\ passes = 0
    /\ call = NoCall
    /\ log = <<>>
    /\ fs0 = fs
    /\ cmds = <<>>
    /\ rsyncs = <<>>

policy_call ==
    /\ pc = "policy"
    /\ \E r \in Results :
         /\ delete_one(r)
         /\ call' = Call("policy", r)
         /\ pc' = IF r = "true" THEN "policy" ELSE "policy_done"
    /\ UNCHANGED <<world_size, jar, res, main_res, saves, cand, passes, log, fs0, cmds, rsyncs>>

PolicyNext == policy_call

PolicySpec == PolicyInit /\ [][PolicyNext]_vars

----------------------------------------------------------------------------
(* The program: main, do_backup, make_room, make_backup, compress_all      *)

\* the snapshots of the backup tree at the start all carry this version
OldVersion == <<"1", "0">>

\* The backup directory of the world at the start: for every timestamp no
\* snapshot, a directory, an archive, or (for the first timestamp) a
\* directory beside its own archive, as a failed remove_dir_all leaves them;
\* and possibly a file whose name is no snapshot name
Slot(ts) ==
    { {} , {Entry(Name(TRUE, ts, OldVersion, TRUE), FALSE, 1)} }
    \cup { {Entry(Name(TRUE, ts, OldVersion, FALSE), TRUE, sz)} : sz \in Sizes }
    \cup (IF ts = 1
          THEN { {Entry(Name(TRUE, ts, OldVersion, FALSE), TRUE, 1),
                  Entry(Name(TRUE, ts, OldVersion, TRUE), FALSE, 1)} }
          ELSE {})

Junk == { {}, {Entry(Name(FALSE, 0, <<>>, FALSE), FALSE, 1)} }

RECURSIVE SlotDirs(_)
SlotDirs(ts) ==
    IF ts = 0 THEN Junk
    ELSE {d \cup e : d \in SlotDirs(ts - 1), e \in Slot(ts)}

WorldDirs == SlotDirs(MaxTs)

OtherDirs == { {} } \cup { {Entry(Name(TRUE, 1, OldVersion, FALSE), TRUE, sz)} : sz \in Sizes }

\* file stems of the link target of minecraft_server.jar, split on '.'
JarStems == { <<"minecraft_server", "1", "1">>,
              <<"minecraft_server">> }

Init ==
    /\ \E w \in WorldDirs, o \in OtherDirs :
         fs = [t \in Targets |-> IF t = World THEN w ELSE o]
    /\ avail \in 0..MaxAvail
    /\ world_size = 0
    /\ jar = <<>>
    /\ pc = "save_off"
    /\ res = "none"
    /\ main_res = "none"
    /\ saves = "on"
    /\ cand = NoCand
    /\ passes = 0
    /\ call = NoCall
    /\ log = <<>>
    /\ fs0 = fs
    /\ cmds = <<>>
    /\ rsyncs = <<>>

\* do_backup returns r: main goes on to the save-on command
do_backup_returns(r) ==
    /\ res' = r
    /\ pc' = "save_on"

\* world.command(cmd): the command is sent, and succeeds or fails
command(cmd, ok) == cmds' = Append(cmds, [cmd |-> cmd, ok |-> ok])

\* world.command("save-off").await?
save_off ==
    /\ pc = "save_off"
    /\ \/ command("save-off", TRUE) /\ saves' = "off" /\ pc' = "save_all" /\ UNCHANGED main_res
       \/ command("save-off", FALSE) /\ main_res' = "Minecraft" /\ pc' = "done" /\ UNCHANGED saves
    /\ UNCHANGED <<fs, avail, world_size, jar, res, cand, passes, call, log, fs0, rsyncs>>

\* world.command("save-all").await?; sleep(10 s)
save_all ==
    /\ pc = "save_all"
    /\ \/ command("save-all", TRUE) /\ pc' = "do_backup" /\ UNCHANGED main_res
       \/ command("save-all", FALSE) /\ main_res' = "Minecraft" /\ pc' = "done"
    /\ UNCHANGED <<fs, avail, world_size, jar, res, saves, cand, passes, call, log, fs0, rsyncs>>

\* do_backup: let world_size = dir_size(world.dir()).await?
do_backup ==
    /\ pc = "do_backup"
    /\ \/ \E sz \in Sizes : world_size' = sz /\ pc' = "make_room" /\ UNCHANGED res
       \/ do_backup_returns("Wheel") /\ UNCHANGED world_size
    /\ UNCHANGED <<fs, avail, jar, main_res, saves, cand, passes, call, log, fs0, cmds, rsyncs>>

\* make_room with do_backup going on to make_backup on Ok(false) too
make_room_ignores_false ==
    /\ pc = "make_room"
    /\ \/ /\ do_backup_returns("NoMount")
          /\ UNCHANGED <<fs, avail, call>>
       \/ /\ ~(avail < world_size)
          /\ pc' = "make_backup"
          /\ UNCHANGED <<fs, avail, call, res>>
       \/ /\ avail < world_size
          /\ \E r \in Results :
               /\ delete_one(r)
               /\ call' = Call("make_room", r)
               /\ IF r = "true" THEN pc' = "make_room" /\ UNCHANGED res
                  ELSE IF r = "false" THEN pc' = "make_backup" /\ UNCHANGED res
                  ELSE do_backup_returns(r)
    /\ UNCHANGED <<world_size, jar, main_res, saves, cand, passes, log, fs0, cmds, rsyncs>>

\* One turn of the loop of make_room(world_size, ..): Ok(true) goes on to
\* make_backup, Ok(false) makes do_backup return Err(DiskSpace)
make_room ==
    /\ pc = "make_room"
    /\ \/ /\ do_backup_returns("NoMount")
          /\ UNCHANGED <<fs, avail, call>>
       \/ /\ ~(avail < world_size)
          /\ pc' = "make_backup"
          /\ UNCHANGED <<fs, avail, call, res>>
       \/ /\ avail < world_size
          /\ \E r \in Results :
               /\ delete_one(r)
               /\ call' = Call("make_room", r)
               /\ IF r = "true" THEN pc' = "make_room" /\ UNCHANGED res
                  ELSE IF r = "false" THEN do_backup_returns("DiskSpace")
                  ELSE do_backup_returns(r)
    /\ UNCHANGED <<world_size, jar, main_res, saves, cand, passes, log, fs0, cmds, rsyncs>>

\* make_backup up to the loop: read_link, Utc::now(), the version of the jar
make_backup ==
    /\ pc = "make_backup"
    /\ \/ do_backup_returns("Wheel") /\ UNCHANGED jar
       \/ \E stem \in JarStems :
            /\ jar' = stem
            /\ IF Len(stem) < 2 THEN do_backup_returns("JarPath")
               ELSE pc' = "rsync" /\ UNCHANGED res
    /\ passes' = 0
    /\ UNCHANGED <<fs, avail, world_size, main_res, saves, cand, call, log, fs0, cmds, rsyncs>>

\* backup_name with the clock read again for every pass
backup_name_per_pass == Name(TRUE, Now + passes, Tail(jar), FALSE)

\* format!("{}_{}", now.format(TIMESTAMP_FORMAT), version)
backup_name == Name(TRUE, Now, Tail(jar), FALSE)

\* One rsync pass: its destination, and what it wrote on stdout ("changes",
\* "empty") or that the command failed
Pass(dest, out) == [dest |-> dest, out |-> out]

\* One pass of rsync in the loop of make_backup; after the last pass
\* do_backup calls compress_all
rsync ==
    /\ pc = "rsync"
    /\ LET dest == Entry(backup_name, TRUE, world_size)
       IN  \/ /\ do_backup_returns("Wheel")
              /\ rsyncs' = Append(rsyncs, Pass(dest.name, "Wheel"))
              /\ UNCHANGED <<fs, avail, passes, fs0>>
           \/ /\ dest \notin fs[World]
              /\ world_size <= avail
              /\ fs' = [fs EXCEPT ![World] = @ \cup {dest}]
              /\ avail' = avail - world_size
              /\ passes' = passes + 1
              /\ rsyncs' = Append(rsyncs, Pass(dest.name, "changes"))
              /\ UNCHANGED <<pc, res, fs0>>
           \/ /\ dest \in fs[World]
              /\ passes < MaxPasses
              /\ passes' = passes + 1
              /\ rsyncs' = Append(rsyncs, Pass(dest.name, "changes"))
              /\ UNCHANGED <<fs, avail, pc, res, fs0>>
           \/ /\ dest \in fs[World]
              /\ pc' = "compress_all"
              /\ fs0' = fs
              /\ passes' = 0
              /\ rsyncs' = Append(rsyncs, Pass(dest.name, "empty"))
              /\ UNCHANGED <<fs, avail, res>>
    /\ UNCHANGED <<world_size, jar, main_res, saves, cand, call, log, cmds>>

\* Uncompressed scanning the directory of the world only
Uncompressed_world_only(tree) ==
    {[target |-> World, name |-> e.name, size |-> e.size] : e \in {x \in tree[World] : x.dir}}

\* the directories found by the scan of compress_all
Uncompressed(tree) ==
    UNION { {[target |-> t, name |-> e.name, size |-> e.size] : e \in {x \in tree[t] : x.dir}} :
            t \in Targets }

\* smallest_uncompressed with the comparison of sizes turned round
smallest_uncompressed_largest(tree) ==
    {c \in Uncompressed(tree) : \A o \in Uncompressed(tree) : ~(o.size > c.size)}

\* smallest_uncompressed: read_dir lists in any order, and of equally small
\* directories the first listed stays
smallest_uncompressed(tree) ==
    {c \in Uncompressed(tree) : \A o \in Uncompressed(tree) : ~(o.size < c.size)}

\* compress_all: one scan of the loop 'outer (make_backup has returned, its
\* passes are past)
compress_all ==
    /\ pc = "compress_all"
    /\ rsyncs' = <<>>
    /\ \/ do_backup_returns("Wheel") /\ UNCHANGED cand
       \/ /\ smallest_uncompressed(fs) = {}
          /\ do_backup_returns("ok")
          /\ UNCHANGED cand
       \/ \E c \in smallest_uncompressed(fs) :
            /\ cand' = c
            /\ pc' = "space"
            /\ UNCHANGED res
    /\ UNCHANGED <<fs, avail, world_size, jar, main_res, saves, passes, call, log, fs0, cmds>>

\* exists without the look at the disk
exists_unchecked(tree, c) == TRUE

\* fs::exists(&path)
exists(tree, c) == \E e \in tree[c.target] : e.name = c.name

\* One step of compress_all as the log keeps it: the candidate, the available
\* space and the tree before and after the step
LogEntry(op, r) ==
    [op |-> op, ret |-> r, cand |-> cand,
     avail |-> avail, before |-> fs, avail_after |-> avail', after |-> fs']

\* space evicting also when the available space is exactly the size
space_off_by_one ==
    /\ pc = "space"
    /\ \/ /\ do_backup_returns("NoMount")
          /\ UNCHANGED <<fs, avail, call, log>>
       \/ /\ ~(avail <= cand.size)
          /\ pc' = "tar"
          /\ UNCHANGED <<fs, avail, call, log, res>>
       \/ /\ avail <= cand.size
          /\ \E r \in Results :
               /\ delete_one(r)
               /\ call' = Call("compress_all", r)
               /\ log' = Append(log, LogEntry("delete_one", r))
               /\ IF r = "true"
                  THEN /\ pc' = IF exists(fs', cand) THEN "space" ELSE "compress_all"
                       /\ UNCHANGED res
                  ELSE IF r = "false" THEN do_backup_returns("DiskSpace")
                  ELSE do_backup_returns(r)
    /\ UNCHANGED <<world_size, jar, main_res, saves, cand, passes, fs0, cmds, rsyncs>>

\* compress_all: one turn of the inner while loop
space ==
    /\ pc = "space"
    /\ \/ /\ do_backup_returns("NoMount")
          /\ UNCHANGED <<fs, avail, call, log>>
       \/ /\ ~(avail < cand.size)
          /\ pc' = "tar"
          /\ UNCHANGED <<fs, avail, call, log, res>>
       \/ /\ avail < cand.size
          /\ \E r \in Results :
               /\ delete_one(r)
               /\ call' = Call("compress_all", r)
               /\ log' = Append(log, LogEntry("delete_one", r))
               /\ IF r = "true"
                  THEN /\ pc' = IF exists(fs', cand) THEN "space" ELSE "compress_all"
                       /\ UNCHANGED res
                  ELSE IF r = "false" THEN do_backup_returns("DiskSpace")
                  ELSE do_backup_returns(r)
    /\ UNCHANGED <<world_size, jar, main_res, saves, cand, passes, fs0, cmds, rsyncs>>

\* the size of the archive that tar makes of a directory
ArchiveSize == 1

\* tar with the exit status of the command ignored
tar_unchecked ==
    /\ pc = "tar"
    /\ \/ /\ pc' = "remove_dir_all"
          /\ UNCHANGED <<fs, avail, res>>
          /\ log' = Append(log, LogEntry("tar", "Wheel"))
       \/ /\ \E e \in fs[cand.target] : e.name = cand.name /\ e.dir
          /\ ArchiveSize <= avail
          /\ fs' = [fs EXCEPT ![cand.target] =
                      {e \in @ : e.name # tar_gz(cand.name)}
                        \cup {Entry(tar_gz(cand.name), FALSE, ArchiveSize)}]
          /\ avail' = avail - ArchiveSize
          /\ log' = Append(log, LogEntry("tar", "ok"))
          /\ pc' = "remove_dir_all"
          /\ UNCHANGED res
    /\ UNCHANGED <<world_size, jar, main_res, saves, cand, passes, call, fs0, cmds, rsyncs>>

\* compress_all: the tar command, which writes <filename>.tar.gz beside the
\* directory, over a file of that name
tar ==
    /\ pc = "tar"
    /\ \/ /\ do_backup_returns("Wheel")
          /\ UNCHANGED <<fs, avail>>
          /\ log' = Append(log, LogEntry("tar", "Wheel"))
       \/ \E sz \in {ArchiveSize} :
            LET old == {e \in fs[cand.target] : e.name = tar_gz(cand.name)}
                freed == IF old = {} THEN 0 ELSE (CHOOSE e \in old : TRUE).size
            IN  /\ \E e \in fs[cand.target] : e.name = cand.name /\ e.dir
                /\ sz <= avail + freed
                /\ fs' = [fs EXCEPT ![cand.target] =
                            (@ \ old) \cup {Entry(tar_gz(cand.name), FALSE, sz)}]
                /\ avail' = avail + freed - sz
                /\ log' = Append(log, LogEntry("tar", "ok"))
                /\ pc' = "remove_dir_all"
                /\ UNCHANGED res
    /\ UNCHANGED <<world_size, jar, main_res, saves, cand, passes, call, fs0, cmds, rsyncs>>

\* compress_all: fs::remove_dir_all(path).await?
remove_dir_all ==
    /\ pc = "remove_dir_all"
    /\ \/ /\ do_backup_returns("Wheel")
          /\ UNCHANGED <<fs, avail>>
          /\ log' = Append(log, LogEntry("remove_dir_all", "Wheel"))
       \/ /\ exists(fs, cand)
          /\ fs' = [fs EXCEPT ![cand.target] = {e \in @ : e.name # cand.name}]
          /\ avail' = avail + cand.size
          /\ log' = Append(log, LogEntry("remove_dir_all", "ok"))
          /\ pc' = "compress_all"
          /\ UNCHANGED res
    /\ UNCHANGED <<world_size, jar, main_res, saves, cand, passes, call, fs0, cmds, rsyncs>>

\* Result::and with the second result's error in front
and_second_first(a, b) == IF b # "ok" THEN b ELSE a

\* res.and(save_on_res): the error of res, or else save_on_res
and(a, b) == IF a # "ok" THEN a ELSE b

\* main: save-on after do_backup, then res.and(save_on_res)
save_on ==
    /\ pc = "save_on"
    /\ \/ /\ command("save-on", TRUE)
          /\ saves' = "on"
          /\ main_res' = and(res, "ok")
       \/ /\ command("save-on", FALSE)
          /\ main_res' = and(res, "Minecraft")
          /\ UNCHANGED saves
    /\ pc' = "done"
    /\ UNCHANGED <<fs, avail, world_size, jar, res, cand, passes, call, log, fs0, rsyncs>>

Next ==
    \/ save_off
    \/ save_all
    \/ do_backup
    \/ make_room
    \/ make_backup
    \/ rsync
    \/ compress_all
    \/ space
    \/ tar
    \/ remove_dir_all
    \/ save_on

Spec == Init /\ [][Next]_vars

\* main with every command and every filesystem call returning: a step that
\* can be taken is taken
FairSpec == Spec /\ WF_vars(Next)

----------------------------------------------------------------------------
(* The claims about delete_one, stated on the record of its last call     *)

\* lexicographic order of two 4-tuples
Lt4(a, b) ==
    \/ a[1] < b[1]
    \/ a[1] = b[1] /\ a[2] < b[2]
    \/ a[1] = b[1] /\ a[2] = b[2] /\ a[3] < b[3]
    \/ a[1] = b[1] /\ a[2] = b[2] /\ a[3] = b[3] /\ a[4] < b[4]

Called == call.by # "none"
DirBefore == call.before[World]
AllSnapshots == \A e \in DirBefore : name_error(e.name) = "ok"
KeysBefore == {key_of(e.name) : e \in DirBefore}
DistinctKeys == Cardinality(KeysBefore) = Cardinality(DirBefore)
Removed == DirBefore \ call.after[World]
OnlyRemoved == /\ call.after[World] \subseteq DirBefore
               /\ \A t \in Targets \ {World} : call.after[t] = call.before[t]

\* C1: delete_one on a backup directory of 0 or 1 snapshots returns false
\* (or the error of a failed filesystem call) and leaves the snapshots of
\* every target as they were.
C1_NoVictimBelowTwo ==
    (Called /\ Cardinality(DirBefore) <= 1 /\ AllSnapshots)
        => /\ call.ret \in {"false", "Wheel"}
           /\ call.after = call.before

C1_Witness ==
    /\ Called /\ Cardinality(DirBefore) = 1 /\ AllSnapshots
    /\ call.ret = "false"

\* C2: delete_one on a directory of exactly 2 snapshots with distinct keys
\* deletes the one with the smaller key and keeps the other (nothing is
\* deleted when a filesystem call fails).
C2_TwoDeletesSmaller ==
    (Called /\ Cardinality(DirBefore) = 2 /\ AllSnapshots /\ DistinctKeys)
        => \/ call.ret = "Wheel" /\ call.after = call.before
           \/ /\ call.ret = "true"
              /\ OnlyRemoved
              /\ call.after[World] =
                   {e \in DirBefore :
                      \E o \in DirBefore : Lt4(key_of(o.name), key_of(e.name))}

\* the smaller key has the later timestamp
C2_Witness ==
    /\ Called /\ Cardinality(DirBefore) = 2 /\ AllSnapshots /\ DistinctKeys
    /\ call.ret = "true"
    /\ \E e \in Removed : \E o \in call.after[World] :
         /\ Lt4(key_of(e.name), key_of(o.name))
         /\ e.name.ts > o.name.ts

\* C3: with 3 or more keys in the catalog, the deleted snapshot has neither
\* the least nor the greatest key.
C3_VictimInterior ==
    (Called /\ call.ret = "true" /\ Cardinality(KeysBefore) >= 3)
        => /\ Cardinality(Removed) = 1
           /\ OnlyRemoved
           /\ \A e \in Removed :
                /\ \E lo \in KeysBefore : Lt4(lo, key_of(e.name))
                /\ \E hi \in KeysBefore : Lt4(key_of(e.name), hi)

C3_Witness ==
    /\ Called /\ call.ret = "true" /\ Cardinality(KeysBefore) >= 4
    /\ Cardinality(Removed) = 1

\* The neighbours of a key in key order, and the keys that have both
KeyPrev(k) == CHOOSE p \in KeysBefore :
                /\ Lt4(p, k)
                /\ \A q \in KeysBefore : Lt4(q, k) => (q = p \/ Lt4(q, p))
KeyNext(k) == CHOOSE n \in KeysBefore :
                /\ Lt4(k, n)
                /\ \A q \in KeysBefore : Lt4(k, q) => (q = n \/ Lt4(n, q))
InteriorKeys == {k \in KeysBefore :
                   (\E p \in KeysBefore : Lt4(p, k)) /\ (\E n \in KeysBefore : Lt4(k, n))}

\* dist(a, b) of the claim
Dist(a, b) ==
    << b[1] - a[1],
       IF a[1] = b[1] THEN b[2] - a[2] ELSE 0,
       IF a[1] = b[1] /\ a[2] = b[2] THEN b[3] - a[3] ELSE 0,
       b[4] - a[4] >>

\* the ascending-sorted pair of the two distances of the triple around k
SortedPair(k) ==
    LET d1 == Dist(KeyPrev(k), k)
        d2 == Dist(k, KeyNext(k))
    IN  IF Lt4(d1, d2) THEN <<d1, d2>> ELSE <<d2, d1>>

PairLt(p, q) == Lt4(p[1], q[1]) \/ (p[1] = q[1] /\ Lt4(p[2], q[2]))

\* C4: with 3 or more keys, the deleted snapshot is the middle of the
\* consecutive triple with the least sorted pair of distances, the earliest
\* such triple in key order when several are equally least.
C4_LeastWindowEarliestTie ==
    (Called /\ call.ret = "true" /\ Cardinality(KeysBefore) >= 3)
        => \A e \in Removed :
             LET v == key_of(e.name)
             IN  /\ v \in InteriorKeys
                 /\ \A k \in InteriorKeys \ {v} :
                      \/ PairLt(SortedPair(v), SortedPair(k))
                      \/ SortedPair(v) = SortedPair(k) /\ Lt4(v, k)

\* two triples tie on the least pair and the earlier one lost its middle
C4_Witness ==
    /\ Called /\ call.ret = "true" /\ Cardinality(KeysBefore) >= 4
    /\ \E e \in Removed : \E k \in InteriorKeys \ {key_of(e.name)} :
         SortedPair(key_of(e.name)) = SortedPair(k)

----------------------------------------------------------------------------
(* The claims about do_backup, make_room and compress_all                  *)

NewSnapshots == {e \in fs[World] : e.name.ts = Now}

\* C5: make_backup starts only with available space >= the size of the
\* world, and when make_room's delete_one finds no victim, do_backup fails
\* with DiskSpace, make_backup and compress_all are never run and no new
\* snapshot exists.
C5_NoRoomNoBackup ==
    /\ (pc \in {"make_backup", "rsync"} /\ NewSnapshots = {}) => avail >= world_size
    /\ (call.by = "make_room" /\ call.ret = "false")
          => /\ call.avail < world_size
             /\ res = "DiskSpace"
             /\ pc \in {"save_on", "done"}
             /\ jar = <<>> /\ passes = 0 /\ log = <<>>
             /\ NewSnapshots = {}
             /\ fs = call.after

\* make_room deleted a snapshot and then found a single one left
C5_Witness ==
    /\ call.by = "make_room" /\ call.ret = "false"
    /\ res = "DiskSpace"
    /\ Cardinality(fs[World]) = 1
    /\ fs # fs0

\* C6: when compress_all has returned Ok, no directory is left under any
\* target of the backup root.
C6_NoDirectoryLeft ==
    res = "ok" => \A t \in Targets : \A e \in fs[t] : ~e.dir

\* compress_all returned Ok after archiving directories of both targets
C6_Witness ==
    /\ res = "ok"
    /\ \E i \in 1..Len(log) : log[i].op = "tar" /\ log[i].cand.target = World
    /\ \E i \in 1..Len(log) : log[i].op = "tar" /\ log[i].cand.target = Other

\* the compressed snapshots are the entries that are no directories, the
\* uncompressed ones the directories
Archives(tree) ==
    UNION { {<<t, e.name>> : e \in {x \in tree[t] : ~x.dir}} : t \in Targets }
Directories(tree) ==
    UNION { {<<t, e.name>> : e \in {x \in tree[t] : x.dir}} : t \in Targets }
Evictions == {i \in 1..Len(log) : log[i].op = "delete_one" /\ log[i].ret = "true"}

\* a directory with the archive of its own name beside it
Twins(tree) ==
    {d \in Directories(tree) : \E a \in Archives(tree) :
        a[1] = d[1] /\ a[2] = [d[2] EXCEPT !.gz = TRUE]}

\* C7 as stated: at the fixpoint of compress_all the compressed snapshots are
\* as many as the uncompressed ones at its start minus the evicted ones.
C7_Original ==
    res = "ok" =>
        Cardinality(Archives(fs)) = Cardinality(Directories(fs0)) - Cardinality(Evictions)

\* C7 amended: at the fixpoint of compress_all the compressed snapshots are
\* as many as all snapshots at its start, compressed or not, minus the
\* evicted ones, when no directory had its own archive beside it at the start.
C7_CountsAllSnapshots ==
    (res = "ok" /\ Twins(fs0) = {}) =>
        Cardinality(Archives(fs)) =
            Cardinality(Archives(fs0)) + Cardinality(Directories(fs0)) - Cardinality(Evictions)

\* a run with archives at the start, an eviction and a compression
C7_Witness ==
    /\ res = "ok" /\ Twins(fs0) = {}
    /\ Archives(fs0) # {}
    /\ Evictions # {}
    /\ \E i \in 1..Len(log) : log[i].op = "tar"

\* C8: compress_all calls delete_one only when the probed available space is
\* below the candidate's size, and once an eviction leaves the candidate in
\* place with enough space, the next step is the candidate's compression, not
\* another eviction.
C8_EvictOnlyWhileShort ==
    \A i \in 1..Len(log) :
        log[i].op = "delete_one" =>
            /\ log[i].avail < log[i].cand.size
            /\ (/\ log[i].ret = "true"
                /\ exists(log[i].after, log[i].cand)
                /\ i < Len(log))
               => IF log[i].avail_after >= log[i].cand.size
                  THEN log[i + 1].op = "tar" /\ log[i + 1].cand = log[i].cand
                  ELSE log[i + 1].op = "delete_one" /\ log[i + 1].cand = log[i].cand

\* space was short for the first candidate, one eviction made it sufficient
\* and the candidate was compressed next
C8_Witness ==
    /\ Len(log) >= 2
    /\ log[1].op = "delete_one" /\ log[1].ret = "true"
    /\ log[1].avail < log[1].cand.size
    /\ log[1].avail_after >= log[1].cand.size
    /\ log[2].op = "tar" /\ log[2].cand = log[1].cand

\* C9 as stated: every eviction of compress_all takes its victim from the
\* target that owns the candidate, and DiskSpace is raised only when that
\* target has a single snapshot left.
C9_EvictsFromOwner ==
    \A i \in 1..Len(log) :
        /\ (log[i].op = "delete_one" /\ log[i].ret = "true")
              => \A t \in Targets \ {log[i].cand.target} : log[i].after[t] = log[i].before[t]
        /\ (log[i].op = "delete_one" /\ log[i].ret = "false")
              => Cardinality(log[i].before[log[i].cand.target]) = 1

\* a name of the grammar <timestamp>_<major>[.<minor>[.<patch>]][.tar.gz]
Digits == {"0", "1", "2", "3"}
SnapshotName(n) == n.re /\ n.ts > 0 /\ \A i \in 1..Len(n.ver) : n.ver[i] \in Digits
Malformed(dir) == {e \in dir : ~SnapshotName(e.name)}

\* C10 as stated: no run of do_backup with a malformed entry name in the
\* backup directory of the world completes successfully.
C10_Original ==
    res = "ok" => Malformed(fs[World]) = {}

\* C10 amended: a malformed entry name in the backup directory of the world
\* aborts the run with an error as soon as delete_one is called, that is when
\* make_room or compress_all finds the available space too small; nothing is
\* deleted by that call and do_backup returns its error.
C10_MalformedAbortsEviction ==
    (call.by # "none" /\ Malformed(call.before[World]) # {})
        => /\ call.ret \in Errors
           /\ call.after = call.before
           /\ res = call.ret
           /\ fs = call.before

\* compress_all met the malformed name when it had to evict
C10_Witness ==
    /\ call.by = "compress_all"
    /\ Malformed(call.before[World]) # {}
    /\ call.ret = "FilenameFormat"
    /\ res = "FilenameFormat"

----------------------------------------------------------------------------
(* Malformed names in delete_one                                           *)

\* a name outside the grammar: the pattern does not match it, or a component
\* of its version is no integer
NotGrammar(n) == ~n.re \/ \E i \in 1..Len(n.ver) : n.ver[i] \notin Digits
\* a name of the grammar whose timestamp digits are no date
NoDate(n) == ~NotGrammar(n) /\ n.ts = 0

----------------------------------------------------------------------------
(* main: the save commands around do_backup                                *)

Issued(cmd) == {i \in 1..Len(cmds) : cmds[i].cmd = cmd}
Returned == pc = "done"

\* C12: once do_backup has returned, with success or with an error, main
\* sends save-on before it returns; main returns the error of do_backup when
\* do_backup failed, also when save-on failed too, and the result of save-on
\* otherwise.
C12_SaveOnAfterDoBackup ==
    /\ res # "none" => pc \in {"save_on", "done"}
    /\ (res # "none" /\ Returned)
          => /\ Issued("save-on") = {Len(cmds)}
             /\ main_res = IF res # "ok" THEN res
                           ELSE IF cmds[Len(cmds)].ok THEN "ok" ELSE "Minecraft"

\* do_backup failed for want of space and save-on failed as well
C12_Witness ==
    /\ Returned
    /\ res = "DiskSpace"
    /\ cmds[Len(cmds)] = [cmd |-> "save-on", ok |-> FALSE]
    /\ main_res = "DiskSpace"

\* C19: in every run of main in which save-off succeeded, save-on is sent
\* before main returns, whichever later step fails.
C19_SavesReenabled ==
    (Returned /\ \E i \in Issued("save-off") : cmds[i].ok)
        => Issued("save-on") # {}

----------------------------------------------------------------------------
(* make_room against its documentation                                     *)

\* the bytes of a gibibyte
GiB == 1073741824

\* the bytes held by a set of entries
RECURSIVE SizeOf(_)
SizeOf(S) ==
    IF S = {} THEN 0
    ELSE LET e == CHOOSE x \in S : TRUE IN e.size + SizeOf(S \ {e})

\* the size of a disk that holds the backups and nothing else
DiskTotal == avail + SizeOf(fs[World]) + SizeOf(fs[Other])

\* C13: make_room returns Ok(true), and do_backup goes on to make_backup,
\* only with at least `amount` gibibytes free and at least `amount` percent
\* of the disk free, where `amount` is the number it was called with.
C13_RoomAsDocumented ==
    (pc = "make_backup")
        => /\ avail >= world_size * GiB
           /\ avail * 100 >= world_size * DiskTotal

----------------------------------------------------------------------------
(* make_backup: the rsync passes                                           *)

\* C14: make_backup returns successfully only after an rsync pass that
\* reported no change; every pass that reports changes is followed by another
\* pass; all passes of one invocation write to the same destination
\* <timestamp>_<version>, whose timestamp is the time read before the first
\* pass.
C14_PassesUntilNoChange ==
    /\ [](\A i \in 1..Len(rsyncs) :
            /\ rsyncs[i].dest = Name(TRUE, Now, Tail(jar), FALSE)
            /\ rsyncs[i].out = "changes" => (i < Len(rsyncs) \/ pc = "rsync")
            /\ i < Len(rsyncs) => rsyncs[i].out = "changes")
    /\ [][(pc = "rsync" /\ pc' # "rsync")
            => /\ rsyncs' # <<>>
               /\ IF rsyncs'[Len(rsyncs')].out = "empty"
                  THEN pc' = "compress_all" /\ res' = "none"
                  ELSE pc' = "save_on" /\ res' = rsyncs'[Len(rsyncs')].out]_vars

\* make_backup returned after two passes with changes and one without
C14_Witness ==
    /\ pc = "compress_all"
    /\ Len(rsyncs) = 3
    /\ rsyncs[1].out = "changes" /\ rsyncs[2].out = "changes" /\ rsyncs[3].out = "empty"
    /\ rsyncs[1].dest \in {e.name : e \in fs[World]}

----------------------------------------------------------------------------
(* compress_all: the order of its steps                                    *)

\* the sizes of the directories of a tree
DirSizes(tree) == UNION { {e.size : e \in {x \in tree[t] : x.dir}} : t \in Targets }
\* the candidate c is a directory of the tree
DirPresent(tree, c) == \E e \in tree[c.target] : e.name = c.name /\ e.dir
\* the archive of the candidate c is in the tree
ArchivePresent(tree, c) ==
    \E e \in tree[c.target] : e.name = [c.name EXCEPT !.gz = TRUE] /\ ~e.dir

\* C15: the candidate of every scan of compress_all is a directory of least
\* size among the directories of all targets at that scan, and a directory is
\* archived only when no strictly smaller directory exists.
C15_SmallestFirst ==
    /\ [][(pc = "compress_all" /\ pc' = "space")
            => /\ DirPresent(fs, cand')
               /\ \E e \in fs[cand'.target] : e.name = cand'.name /\ e.size = cand'.size
               /\ \A s \in DirSizes(fs) : cand'.size <= s]_vars
    /\ [](\A i \in 1..Len(log) :
            log[i].op = "tar" => \A s \in DirSizes(log[i].before) : log[i].cand.size <= s)

\* a directory of the other target was archived while the world held a
\* larger one
C15_Witness ==
    \E i \in 1..Len(log) :
        /\ log[i].op = "tar" /\ log[i].ret = "ok"
        /\ log[i].cand.target = Other
        /\ \E e \in log[i].before[World] : e.dir /\ e.size > log[i].cand.size

\* C16: when an eviction deletes the candidate itself, compress_all gives
\* the candidate up and scans again: tar and remove_dir_all run only on a
\* candidate whose directory is present.
C16_EvictedCandidateAbandoned ==
    /\ pc \in {"space", "tar", "remove_dir_all"} => DirPresent(fs, cand)
    /\ \A i \in 1..Len(log) :
          /\ log[i].op \in {"tar", "remove_dir_all"} => DirPresent(log[i].before, log[i].cand)
          /\ (/\ log[i].op = "delete_one"
              /\ ~DirPresent(log[i].after, log[i].cand)
              /\ i < Len(log))
             => log[i + 1].cand # log[i].cand

\* the eviction deleted the candidate and another directory was archived next
C16_Witness ==
    \E i \in 1..Len(log) :
        /\ log[i].op = "delete_one" /\ log[i].ret = "true"
        /\ DirPresent(log[i].before, log[i].cand)
        /\ ~DirPresent(log[i].after, log[i].cand)
        /\ i < Len(log)
        /\ log[i + 1].op = "tar" /\ log[i + 1].ret = "ok"

\* C17: remove_dir_all runs on a directory only after tar succeeded for it,
\* with the archive in place; when tar fails, compress_all returns the error
\* and the directory is still there.
C17_RemoveOnlyAfterArchive ==
    \A i \in 1..Len(log) :
        /\ log[i].op = "remove_dir_all"
              => /\ i > 1
                 /\ log[i - 1].op = "tar" /\ log[i - 1].ret = "ok"
                 /\ log[i - 1].cand = log[i].cand
                 /\ ArchivePresent(log[i].before, log[i].cand)
        /\ (log[i].op = "tar" /\ log[i].ret # "ok")
              => /\ i = Len(log)
                 /\ res = log[i].ret
                 /\ fs = log[i].before
                 /\ DirPresent(fs, log[i].cand)

\* one directory was archived and removed, then tar failed on the next
C17_Witness ==
    /\ Len(log) = 3
    /\ log[1].op = "tar" /\ log[1].ret = "ok"
    /\ log[2].op = "remove_dir_all" /\ log[2].ret = "ok"
    /\ log[3].op = "tar" /\ log[3].ret = "Wheel"
    /\ res = "Wheel"
    /\ DirPresent(fs, log[3].cand)

----------------------------------------------------------------------------
(* What evictions never delete                                             *)

\* the entries of greatest key of a directory
Newest(dir) == {e \in dir : \A o \in dir : ~Lt4(key_of(e.name), key_of(o.name))}
\* a directory of snapshots with distinct keys
Catalog(dir) ==
    /\ \A e \in dir : SnapshotName(e.name)
    /\ \A e, o \in dir : key_of(e.name) = key_of(o.name) => e = o

\* C20: after any sequence of delete_one calls on a directory that started
\* with at least one snapshot and distinct keys, the snapshot of greatest key
\* is still there, so evictions never empty the directory.
C20_NewestSurvives ==
    (Catalog(fs0[World]) /\ fs0[World] # {})
        => /\ Newest(fs0[World]) \subseteq fs[World]
           /\ fs[World] # {}
           /\ fs[World] \subseteq fs0[World]

\* four snapshots were evicted down to the one of greatest key
C20_Witness ==
    /\ Catalog(fs0[World])
    /\ Cardinality(fs0[World]) = 4
    /\ call.ret = "false"
    /\ fs[World] = Newest(fs0[World])
    /\ Cardinality(fs[World]) = 1

----------------------------------------------------------------------------
(* Termination of make_room and compress_all                               *)

Compressions == {i \in 1..Len(log) : log[i].op = "tar" /\ log[i].ret = "ok"}
InMakeRoom == pc = "make_room"
InCompressAll == pc \in {"compress_all", "space", "tar", "remove_dir_all"}

\* a turn of a loop deletes one snapshot or turns a directory into an archive
LoopTurn ==
    /\ (InMakeRoom /\ pc' = "make_room")
          => /\ fs'[World] \subseteq fs[World]
             /\ Cardinality(fs'[World]) = Cardinality(fs[World]) - 1
    /\ (pc = "space" /\ pc' \in {"space", "compress_all"})
          => /\ fs'[World] \subseteq fs[World]
             /\ Cardinality(fs'[World]) = Cardinality(fs[World]) - 1
    /\ (pc = "tar" /\ pc' = "remove_dir_all")
          => /\ ArchivePresent(fs', cand)
             /\ \/ ArchivePresent(fs, cand)
                \/ Cardinality(Archives(fs')) = Cardinality(Archives(fs)) + 1
    /\ (pc = "remove_dir_all" /\ pc' = "compress_all")
          => Cardinality(Directories(fs')) = Cardinality(Directories(fs)) - 1

\* the deletions of make_room and the archives and evictions of compress_all
\* so far, against the tree each started with
LoopBounds ==
    /\ (InMakeRoom /\ fs0[World] # {})
          => Cardinality(fs0[World]) - Cardinality(fs[World])
               <= Cardinality(fs0[World]) - 1
    /\ (InCompressAll \/ log # <<>>)
          => /\ Cardinality(Compressions) <= Cardinality(Directories(fs0))
             /\ Cardinality(Evictions) <= Cardinality(fs0[World]) - 1

\* C18: make_room and compress_all terminate when every command and every
\* filesystem call returns. Every turn of their loops deletes one snapshot,
\* turns one directory into an archive, or leaves the loop; make_room deletes
\* at most n - 1 of the n snapshots of the target, and compress_all makes at
\* most as many archives as there were directories when it started and evicts
\* at most all but one of the target's snapshots.
C18_LoopsTerminate ==
    /\ [][LoopTurn]_vars
    /\ []LoopBounds
    /\ <>Returned

\* make_room deleted all but one of the snapshots and gave up
C18_Witness ==
    /\ call.by = "make_room" /\ call.ret = "false"
    /\ Cardinality(fs0[World]) = MaxTs
    /\ Cardinality(fs[World]) = 1
    /\ res = "DiskSpace"

============================================================================
